---------------------------- MODULE Spec2Model ----------------------------
(***************************************************************************)
(* A model of job_hunting_tools: the local record keeping of               *)
(* src/job_hunting_tools_backend.py and of its older variant src/main.py,  *)
(* the Google Sheet update both share, and the form handler                *)
(* MainWindow._update_records of src/job_hunting_tools_main_ui.py.         *)
(*                                                                         *)
(* File and folder names are sequences of one-character strings, so that   *)
(* str.replace, str.lower, the {:03d} format and str.startswith are        *)
(* computed character by character.  Every handler runs to completion in   *)
(* one step (the program is single threaded and synchronous); SpecRace     *)
(* alone runs log_job_applied_for in two processes, one step for each      *)
(* access to the file system.                                              *)
(***************************************************************************)
EXTENDS Integers, Sequences, FiniteSets, TLC

VARIABLES
    dirs,        \* the company folders that exist: a set of <<root, folder>>
    files,       \* the regular files: <<root, folder, name>> -> content
    clock,       \* datetime.datetime.now(): the number of changes to the file system so far
    writes,      \* history: the record files written by write_json_file, oldest first
    tampered,    \* history: the number of files created or deleted outside the program
    ret,         \* how the last call ended (returned value or raised exception)
    lastSheet,   \* the gspread calls the last update_google_sheet call completed
    statusLabel, \* MainWindow.states_lable's text
    trace,       \* history: what the last run of _update_records did, in order
    inv          \* the invocations of log_job_applied_for running in two processes

vars == <<dirs, files, clock, writes, tampered, ret, lastSheet, statusLabel, trace, inv>>

-----------------------------------------------------------------------------
(* Bounds of the model *)

\* the number of steps (calls and outside changes) of one behaviour
MaxSteps == 3

\* the highest record index an outside actor uses for a file it creates
MaxExternalIndex == 3

\* the number of changes made from outside the program in one behaviour
MaxExternal == 1

\* the number of runs of the backend script and of outside changes between them in one
\* behaviour
MaxRuns == 5

-----------------------------------------------------------------------------
(* Strings *)

\* str.lower() on one character (the alphabet of the inputs below)
Lower(c) ==
    CASE c = "C" -> "c"
      [] c = "D" -> "d"
      [] c = "E" -> "e"
      [] c = "P" -> "p"
      [] c = "Q" -> "q"
      [] OTHER -> c

\* s.replace(" ", "_").lower()
Normalize(s) == [i \in 1..Len(s) |-> Lower(IF s[i] = " " THEN "_" ELSE s[i])]

DigitChar(d) == <<"0", "1", "2", "3", "4", "5", "6", "7", "8", "9">>[d + 1]

RECURSIVE Decimal(_)
Decimal(n) ==
    IF n < 10 THEN <<DigitChar(n)>>
    ELSE Decimal(n \div 10) \o <<DigitChar(n % 10)>>

\* f"{n:03d}": decimal, padded with zeros to at least three characters
Format03d(n) ==
    LET s == Decimal(n)
    IN  IF Len(s) >= 3 THEN s ELSE [i \in 1..(3 - Len(s)) |-> "0"] \o s

\* "_job_description.json"
JsonSuffix ==
    <<"_", "j", "o", "b", "_", "d", "e", "s", "c", "r", "i", "p", "t", "i", "o", "n",
      ".", "j", "s", "o", "n">>

\* name.startswith(prefix)
StartsWith(name, prefix) ==
    /\ Len(name) >= Len(prefix)
    /\ SubSeq(name, 1, Len(prefix)) = prefix

-----------------------------------------------------------------------------
(* Inputs *)

\* the default job_root_path of create_folder_structure, and another root
DefaultRoot == "D:\\storage\\documents\\job_hunting\\companies_applied_for"
Roots == {DefaultRoot, "E:\\jobs"}

\* "C D" normalizes to the folder c_d, "E" to e
Companies == {<<"C", " ", "D">>, <<"E">>}

\* for company "C D" the base names are c_d_p and c_d_p_q: the prefix c_d_p_ matches both
Positions == {<<"P">>, <<"p", " ", "Q">>}

Descriptions == {"description one", "description two"}

\* the outcome of the file system calls of one invocation
FsFaults == {"none", "mkdir", "open"}

NoArg == "<not passed>"
None == "None"

-----------------------------------------------------------------------------
(* The file system *)

\* [file for file in path_structure.iterdir() if file.is_file()], as names
FilesIn(fs, folder) == {p[3] : p \in {q \in DOMAIN fs : q[1] = folder[1] /\ q[2] = folder[2]}}

\* (path_structure / name).exists()
Exists(fs, folder, name) == <<folder[1], folder[2], name>> \in DOMAIN fs

EmptyFs == [p \in {} |-> None]

-----------------------------------------------------------------------------
(* create_folder_structure *)

CreateFolderNoLower(company_name, job_root_path, fault, ds) ==
    LET company_folder_path == <<job_root_path,
            [i \in 1..Len(company_name) |->
                IF company_name[i] = " " THEN "_" ELSE company_name[i]]>>
    IN  IF company_folder_path \in ds
        THEN [raised |-> FALSE, path |-> company_folder_path, dirs |-> ds]
        ELSE IF fault = "mkdir"
        THEN [raised |-> TRUE, path |-> company_folder_path, dirs |-> ds]
        ELSE [raised |-> FALSE, path |-> company_folder_path,
              dirs |-> ds \cup {company_folder_path}]

\* Path.mkdir(parents=True, exist_ok=True) never raises for a folder that exists
\* (pathlib swallows the OSError when the path is a directory); creating one may fail.
CreateFolderStructure(company_name, job_root_path, fault, ds) ==
    LET company_folder_path == <<job_root_path, Normalize(company_name)>>
    IN  IF company_folder_path \in ds
        THEN [raised |-> FALSE, path |-> company_folder_path, dirs |-> ds]
        ELSE IF fault = "mkdir"
        THEN [raised |-> TRUE, path |-> company_folder_path, dirs |-> ds]
        ELSE [raised |-> FALSE, path |-> company_folder_path,
              dirs |-> ds \cup {company_folder_path}]

-----------------------------------------------------------------------------
(* write_json_file *)

\* job_data as json.dump writes it; job_description is the clipboard's text
JobData(position, company_name, clip, now) ==
    [job_description |-> clip,
     position_name   |-> position,
     company_name    |-> company_name,
     date_applied    |-> now]

WriteJsonFileExclusive(position, company_name, json_file_path, clip, now, fault, fs) ==
    IF fault = "open" \/ json_file_path \in DOMAIN fs
    THEN [raised |-> TRUE, files |-> fs]
    ELSE [raised |-> FALSE,
          files  |-> (json_file_path :> JobData(position, company_name, clip, now)) @@ fs]

WriteJsonFileNoTruncate(position, company_name, json_file_path, clip, now, fault, fs) ==
    IF fault = "open"
    THEN [raised |-> TRUE, files |-> fs]
    ELSE [raised |-> FALSE,
          files  |-> fs @@ (json_file_path :> JobData(position, company_name, clip, now))]

\* json_file_path.open("w") creates the file or truncates the one that is there
WriteJsonFile(position, company_name, json_file_path, clip, now, fault, fs) ==
    IF fault = "open"
    THEN [raised |-> TRUE, files |-> fs]
    ELSE [raised |-> FALSE,
          files  |-> (json_file_path :> JobData(position, company_name, clip, now)) @@ fs]

-----------------------------------------------------------------------------
(* log_job_applied_for of job_hunting_tools_backend.py *)

\* file_name.replace(" ", "_").lower() for file_name = f"{company_name}_{position}"
BaseName(company_name, position) == Normalize(company_name \o <<"_">> \o position)

\* the loop over the folder's files: new_file_index starts at 1 and is incremented
\* for every file whose name starts with the base name and an underscore
RECURSIVE ScanLoop(_, _, _)
ScanLoop(names, prefix, new_file_index) ==
    IF names = {} THEN new_file_index
    ELSE LET file == CHOOSE f \in names : TRUE
         IN  ScanLoop(names \ {file}, prefix,
                      IF StartsWith(file, prefix) THEN new_file_index + 1
                      ELSE new_file_index)

NewFileIndexFromZero(fs, folder, base) == ScanLoop(FilesIn(fs, folder), base \o <<"_">>, 0)

NewFileIndex(fs, folder, base) == ScanLoop(FilesIn(fs, folder), base \o <<"_">>, 1)

ChooseNameAlwaysScans(fs, folder, company_name, position) ==
    LET base == BaseName(company_name, position)
        n    == NewFileIndex(fs, folder, base)
    IN  [name |-> base \o <<"_">> \o Format03d(n) \o JsonSuffix,
         index |-> n, scanned |-> TRUE]

\* the name and index log_job_applied_for settles on
ChooseName(fs, folder, company_name, position) ==
    LET base  == BaseName(company_name, position)
        first == base \o <<"_">> \o Format03d(1) \o JsonSuffix
    IN  IF Exists(fs, folder, first)
        THEN LET n == NewFileIndex(fs, folder, base)
             IN  [name |-> base \o <<"_">> \o Format03d(n) \o JsonSuffix,
                  index |-> n, scanned |-> TRUE]
        ELSE [name |-> first, index |-> 1, scanned |-> FALSE]


\* the number of parameters of def log_job_applied_for(company_name, position)
NParams == 2

NoWrite == <<>>

\* One call of log_job_applied_for with nargs positional arguments.  Python binds the
\* arguments before the body runs: a call with more than two raises TypeError.
\* A failing mkdir or open raises OSError out of the function (there is no try).
LogJobAppliedFor(nargs, company_name, position, clip, now, fault, ds, fs) ==
    IF nargs # NParams
    THEN [raised |-> TRUE, exc |-> "TypeError", value |-> None,
          dirs |-> ds, files |-> fs, wrote |-> NoWrite]
    ELSE
    LET cf == CreateFolderStructure(company_name, DefaultRoot, fault, ds)
    IN  IF cf.raised
        THEN [raised |-> TRUE, exc |-> "OSError", value |-> None,
              dirs |-> ds, files |-> fs, wrote |-> NoWrite]
        ELSE
        LET path_structure == cf.path
            chosen == ChooseName(fs, path_structure, company_name, position)
            json_file_path == <<path_structure[1], path_structure[2], chosen.name>>
            w == WriteJsonFile(position, company_name, json_file_path, clip, now, fault, fs)
        IN  IF w.raised
            THEN [raised |-> TRUE, exc |-> "OSError", value |-> None,
                  dirs |-> cf.dirs, files |-> fs, wrote |-> NoWrite]
            ELSE [raised |-> FALSE, exc |-> None, value |-> None,
                  dirs |-> cf.dirs, files |-> w.files,
                  wrote |-> <<[variant |-> "backend",
                               path    |-> json_file_path,
                               base    |-> BaseName(company_name, position),
                               index   |-> chosen.index,
                               scanned |-> chosen.scanned,
                               existed |-> json_file_path \in DOMAIN fs]>>]

-----------------------------------------------------------------------------
(* log_job_applied_for of main.py: one fixed name per company and position *)

MainLogJobAppliedFor(nargs, company_name, position, clip, now, fault, ds, fs) ==
    IF nargs # NParams
    THEN [raised |-> TRUE, exc |-> "TypeError", value |-> None,
          dirs |-> ds, files |-> fs, wrote |-> NoWrite]
    ELSE
    LET cf == CreateFolderStructure(company_name, DefaultRoot, fault, ds)
    IN  IF cf.raised
        THEN [raised |-> TRUE, exc |-> "OSError", value |-> None,
              dirs |-> ds, files |-> fs, wrote |-> NoWrite]
        ELSE
        LET path_structure == cf.path
            jsong_name == BaseName(company_name, position) \o JsonSuffix
            json_file_path == <<path_structure[1], path_structure[2], jsong_name>>
            w == WriteJsonFile(position, company_name, json_file_path, clip, now, fault, fs)
        IN  IF w.raised
            THEN [raised |-> TRUE, exc |-> "OSError", value |-> None,
                  dirs |-> cf.dirs, files |-> fs, wrote |-> NoWrite]
            ELSE [raised |-> FALSE, exc |-> None, value |-> None,
                  dirs |-> cf.dirs, files |-> w.files,
                  wrote |-> <<[variant |-> "main",
                               path    |-> json_file_path,
                               base    |-> BaseName(company_name, position),
                               index   |-> 0,
                               scanned |-> FALSE,
                               existed |-> json_file_path \in DOMAIN fs]>>]

-----------------------------------------------------------------------------
(* The Google Sheet: update_google_sheet and log_google_sheet_data *)

\* the worksheets of the spreadsheet, in order; get_worksheet(0) is the first
Worksheets == <<"Summary", "Jobs Applied For", "Other">>

TabNames == {None, "", "Jobs Applied For", "Other"}

SheetNames == {"", "Job log", "Archive"}

CredPaths == {"", "credentials.json"}

\* where the spreadsheet client fails in one invocation
SheetFaults == {"none", "auth", "open", "worksheet", "insert", "append"}

\* Python's truth value of tab_name: None and "" are false
Truthy(t) == t # None /\ t # ""

\* index=2 of sheet.insert_row([], index=2)
InsertIndex == 2

\* the index of spreadsheet.get_worksheet(0)
FirstWorksheet == 0

\* table_range="A2" of sheet.append_rows
TableRange == "A2"

ApiCall(op, sheet, values, index, table_range) ==
    [op |-> op, sheet |-> sheet, values |-> values, index |-> index,
     table_range |-> table_range]

\* the worksheet update_google_sheet selects
SelectedSheet(tab_name) ==
    IF Truthy(tab_name) THEN "Jobs Applied For" ELSE Worksheets[FirstWorksheet + 1]

SheetCallsAppendFirst(sheet_name, data, tab_name) ==
    LET sheet == SelectedSheet(tab_name)
    IN  << ApiCall("open", sheet_name, <<>>, 0, ""),
           ApiCall(IF Truthy(tab_name) THEN "worksheet" ELSE "get_worksheet",
                   sheet, <<>>, 0, ""),
           ApiCall("append_rows", sheet, data, 0, TableRange),
           ApiCall("insert_row", sheet, <<>>, InsertIndex, "") >>

\* the gspread calls of update_google_sheet in program order
SheetCalls(sheet_name, data, tab_name) ==
    LET sheet == SelectedSheet(tab_name)
    IN  << ApiCall("open", sheet_name, <<>>, 0, ""),
           ApiCall(IF Truthy(tab_name) THEN "worksheet" ELSE "get_worksheet",
                   sheet, <<>>, 0, ""),
           ApiCall("insert_row", sheet, <<>>, InsertIndex, ""),
           ApiCall("append_rows", sheet, data, 0, TableRange) >>

\* how many of the four calls complete when the client fails at `fault`
Completed(fault) ==
    CASE fault = "open"      -> 0
      [] fault = "worksheet" -> 1
      [] fault = "insert"    -> 2
      [] fault = "append"    -> 3
      [] OTHER               -> 4

\* update_google_sheet: the calls run in order until one raises; the exception is
\* not caught
UpdateGoogleSheet(sheet_name, data, tab_name, fault) ==
    LET n == Completed(fault)
    IN  [raised |-> n < 4,
         exc    |-> IF n < 4 THEN "APIError" ELSE None,
         value  |-> None,
         calls  |-> SubSeq(SheetCalls(sheet_name, data, tab_name), 1, n)]

\* log_google_sheet_data: authenticate, then update; neither exception is caught
LogGoogleSheetData(creds_path, sheet_name, data, tab_name, fault) ==
    IF fault = "auth"
    THEN [raised |-> TRUE, exc |-> "CredentialsError", value |-> None, calls |-> <<>>]
    ELSE UpdateGoogleSheet(sheet_name, data, tab_name, fault)

\* the form's other fields; every value is a sequence of characters
Websites == {<<"w">>}
JobEmails == {<<"m">>}
Locations == {<<"l">>}
WorkLocations == {<<"R", "e", "m", "o", "t", "e">>}
Industries == {<<"i">>}
Dates == {<<"1", "/", "2">>}

Forms ==
    [company : Companies, position : Positions, website : Websites,
     job_email : JobEmails, location : Locations, work_location : WorkLocations,
     industry : Industries, date : Dates]

\* the data list the callers build: one row of eight fields
SheetData(f) ==
    << <<f.position, f.company, f.website, f.job_email, f.location, f.work_location,
         f.industry, f.date>> >>


-----------------------------------------------------------------------------
(* The state after start-up *)

Resumes == {"cv.pdf", "missing.pdf"}

\* the resume files that exist on disk
ExistingResumes == {"cv.pdf"}

\* the record of a call: what was passed and how the call ended
NoCall ==
    [fn |-> "none", nargs |-> 0, company |-> <<>>, position |-> <<>>,
     description |-> NoArg, resume |-> NoArg, root |-> "", sheetFault |-> "none",
     creds_path |-> NoArg, sheet_name |-> NoArg,
     raised |-> FALSE, exc |-> None, value |-> None, path |-> <<>>, wrote |-> NoWrite]

NoSheetCall ==
    [sheet_name |-> "", tab_name |-> None, data |-> <<>>, raised |-> FALSE, calls |-> <<>>]

\* what _update_records does, in program order: it reads the form's fields, calls
\* log_job_applied_for, calls log_google_sheet_data, and sets the label's text
Gathered == "field_data gathered"
SaveCalled == "log_job_applied_for called"
SaveReturned == "log_job_applied_for returned"
SaveRaised == "log_job_applied_for raised"
AppendCalled == "log_google_sheet_data called"
AppendReturned == "log_google_sheet_data returned"
AppendRaised == "log_google_sheet_data raised"
LabelSet == "states_lable.setText called"

\* the two processes that may run the program at the same time on one file system
Procs == {1, 2}

\* a process in which no invocation of log_job_applied_for has started
Idle ==
    [pc |-> "idle", company |-> <<>>, position |-> <<>>, path_structure |-> <<>>,
     jsong_name |-> <<>>, new_file_index |-> 0, scanned |-> FALSE, clip |-> NoArg,
     raised |-> FALSE, selectedAt |-> 0, wroteAt |-> 0]

\* self.states_lable = QLabel("<< States - you have not run me yet :) >>")
InitialLabel == <<"<< States - you have not run me yet :) >>">>

\* no company folder exists yet, no call was made, and the window was just built
Init ==
    /\ dirs = {}
    /\ files = EmptyFs
    /\ clock = 0
    /\ writes = <<>>
    /\ tampered = 0
    /\ ret = NoCall
    /\ lastSheet = NoSheetCall
    /\ statusLabel = InitialLabel
    /\ trace = <<>>
    /\ inv = [p \in Procs |-> Idle]

\* the clock after a call: it advances when the call changed the file system
Tick(ds, fs) == IF ds # dirs \/ fs # files THEN clock + 1 ELSE clock

-----------------------------------------------------------------------------
(* Calls of the backend functions *)

\* the arguments a caller passes after company_name and position: a job description
\* (as the form does), or a job description and a resume path (the documented call)
ExtraArgs ==
    {[description |-> d, resume |-> NoArg] : d \in Descriptions}
    \cup {[description |-> d, resume |-> r] : d \in Descriptions, r \in Resumes}

NArgs(extra) ==
    2 + (IF extra.description # NoArg THEN 1 ELSE 0) + (IF extra.resume # NoArg THEN 1 ELSE 0)

\* the call made with the given arguments
LogJobStep(company, position, extra, clip, fault) ==
        LET r == LogJobAppliedFor(NArgs(extra), company, position, clip, clock, fault,
                                  dirs, files)
        IN  /\ clock' = Tick(r.dirs, r.files)
            /\ dirs' = r.dirs
            /\ files' = r.files
            /\ writes' = writes \o r.wrote
            /\ ret' = [NoCall EXCEPT !.fn = "log_job_applied_for",
                                     !.nargs = NArgs(extra),
                                     !.company = company,
                                     !.position = position,
                                     !.description = extra.description,
                                     !.resume = extra.resume,
                                     !.root = DefaultRoot,
                                     !.raised = r.raised,
                                     !.exc = r.exc,
                                     !.value = r.value,
                                     !.wrote = r.wrote]
            /\ UNCHANGED <<tampered, lastSheet, statusLabel, trace, inv>>

LogJobCall(company, position, extra, clip, fault) ==
    /\ clock < MaxSteps
    /\ LogJobStep(company, position, extra, clip, fault)

\* log_job_applied_for(company_name, position), as the backend's __main__ calls it
CallLogJobAppliedFor ==
    \E company \in Companies, position \in Positions, clip \in Descriptions,
       fault \in FsFaults :
        LogJobCall(company, position, [description |-> NoArg, resume |-> NoArg],
                   clip, fault)

\* log_job_applied_for called with a job description, or with one and a resume path
CallLogJobAppliedForExtra ==
    \E company \in Companies, position \in Positions, extra \in ExtraArgs,
       clip \in Descriptions, fault \in FsFaults :
        LogJobCall(company, position, extra, clip, fault)

\* log_job_applied_for(company_name, position) of main.py
CallMainLogJobAppliedFor ==
    \E company \in Companies, position \in Positions, clip \in Descriptions,
       fault \in FsFaults :
        LET r == MainLogJobAppliedFor(2, company, position, clip, clock, fault,
                                      dirs, files)
        IN  /\ clock < MaxSteps
            /\ clock' = Tick(r.dirs, r.files)
            /\ dirs' = r.dirs
            /\ files' = r.files
            /\ writes' = writes \o r.wrote
            /\ ret' = [NoCall EXCEPT !.fn = "main.log_job_applied_for",
                                     !.nargs = 2,
                                     !.company = company,
                                     !.position = position,
                                     !.root = DefaultRoot,
                                     !.raised = r.raised,
                                     !.exc = r.exc,
                                     !.value = r.value,
                                     !.wrote = r.wrote]
            /\ UNCHANGED <<tampered, lastSheet, statusLabel, trace, inv>>

\* create_folder_structure(company_name, job_root_path)
CallCreateFolderStructure ==
    \E company \in Companies, root \in Roots, fault \in FsFaults :
        LET r == CreateFolderStructure(company, root, fault, dirs)
        IN  /\ clock < MaxSteps
            /\ clock' = Tick(r.dirs, files)
            /\ dirs' = r.dirs
            /\ ret' = [NoCall EXCEPT !.fn = "create_folder_structure",
                                     !.nargs = 2,
                                     !.company = company,
                                     !.root = root,
                                     !.raised = r.raised,
                                     !.exc = IF r.raised THEN "OSError" ELSE None,
                                     !.path = IF r.raised THEN <<>> ELSE r.path]
            /\ UNCHANGED <<files, writes, tampered, lastSheet, statusLabel, trace, inv>>

\* log_google_sheet_data(creds_path, scopes, sheet_name, data, tab_name), called as
\* main.py's __main__ does, with the row built from the job's fields
CallLogGoogleSheetData ==
    \E f \in Forms, sheet_name \in SheetNames \ {""}, tab_name \in TabNames,
       fault \in SheetFaults :
        LET data == SheetData(f)
            r == LogGoogleSheetData("credentials.json", sheet_name, data, tab_name, fault)
        IN  /\ lastSheet' = [sheet_name |-> sheet_name, tab_name |-> tab_name,
                             data |-> data, raised |-> r.raised, calls |-> r.calls]
            /\ ret' = [NoCall EXCEPT !.fn = "log_google_sheet_data",
                                     !.nargs = 5,
                                     !.sheetFault = fault,
                                     !.raised = r.raised,
                                     !.exc = r.exc,
                                     !.value = r.value]
            /\ UNCHANGED <<dirs, files, clock, writes, tampered, statusLabel, trace, inv>>

-----------------------------------------------------------------------------
(* MainWindow._update_records *)

\* the text of the label after both calls returned: f"{job_log_result}\n{google_sheet_result}"
ResultText(job_log_result, google_sheet_result) == <<job_log_result, google_sheet_result>>

NothingToUpdateWhenBothEmpty(creds_path, sheet_name) == creds_path = "" /\ sheet_name = ""

\* if not creds_path or not sheet_name: an empty string is false
NothingToUpdate(creds_path, sheet_name) == creds_path = "" \/ sheet_name = ""

\* The handler of the "Updated Records" button.  It returns early when the credential
\* path or the sheet name is empty; otherwise it calls log_job_applied_for with three
\* arguments, then log_google_sheet_data, then sets the label.  An exception of either
\* call leaves the handler (there is no try), and the label keeps its text.
UpdateRecords ==
    \E f \in Forms, creds_path \in CredPaths, sheet_name \in SheetNames \ {"Archive"} :
        LET google_sheet_data == SheetData(f)
            call == [NoCall EXCEPT !.fn = "_update_records",
                                   !.company = f.company,
                                   !.position = f.position,
                                   !.creds_path = creds_path,
                                   !.sheet_name = sheet_name]
        IN  /\ clock < MaxSteps
            /\ UNCHANGED <<tampered, inv>>
            /\ IF NothingToUpdate(creds_path, sheet_name)
               THEN /\ ret' = [call EXCEPT !.fn = "_update_records (nothing to update)"]
                    /\ trace' = <<Gathered>>
                    /\ UNCHANGED <<dirs, files, clock, writes, lastSheet, statusLabel>>
               ELSE
               \E tab_name \in TabNames \ {None}, job_description \in Descriptions,
                  clip \in Descriptions, fsFault \in FsFaults, sheetFault \in SheetFaults :
                LET r1 == LogJobAppliedFor(3, f.company, f.position, clip, clock,
                                           fsFault, dirs, files)
                    r2 == LogGoogleSheetData(creds_path, sheet_name, google_sheet_data,
                                             tab_name, sheetFault)
                    made == [call EXCEPT !.nargs = 3,
                                         !.description = job_description,
                                         !.sheetFault = sheetFault]
                IN  IF r1.raised
                    THEN /\ ret' = [made EXCEPT !.raised = TRUE, !.exc = r1.exc]
                         /\ dirs' = r1.dirs
                         /\ files' = r1.files
                         /\ clock' = Tick(r1.dirs, r1.files)
                         /\ trace' = <<Gathered, SaveCalled, SaveRaised>>
                         /\ UNCHANGED <<writes, lastSheet, statusLabel>>
                    ELSE /\ dirs' = r1.dirs
                         /\ files' = r1.files
                         /\ clock' = Tick(r1.dirs, r1.files)
                         /\ writes' = writes \o r1.wrote
                         /\ lastSheet' = [sheet_name |-> sheet_name,
                                          tab_name |-> tab_name,
                                          data |-> google_sheet_data,
                                          raised |-> r2.raised, calls |-> r2.calls]
                         /\ IF r2.raised
                            THEN /\ ret' = [made EXCEPT !.raised = TRUE, !.exc = r2.exc,
                                                        !.wrote = r1.wrote]
                                 /\ trace' = <<Gathered, SaveCalled, SaveReturned,
                                               AppendCalled, AppendRaised>>
                                 /\ UNCHANGED statusLabel
                            ELSE /\ ret' = [made EXCEPT !.wrote = r1.wrote]
                                 /\ trace' = <<Gathered, SaveCalled, SaveReturned,
                                               AppendCalled, AppendReturned, LabelSet>>
                                 /\ statusLabel' = ResultText(r1.value, r2.value)

-----------------------------------------------------------------------------
(* Changes made to the folders from outside the program *)

\* a file that is not a record but starts with the base name c_d_p and an underscore
StrayName == <<"c", "_", "d", "_", "p", "_", "x">>

\* the names of the files created from outside: records of company "C D" and position
\* "P", and the stray
ExternalNames ==
    {BaseName(<<"C", " ", "D">>, <<"P">>) \o <<"_">> \o Format03d(i) \o JsonSuffix :
        i \in 1..MaxExternalIndex}
    \cup {StrayName}

ExternalContent ==
    [job_description |-> "written elsewhere", position_name |-> <<>>,
     company_name |-> <<>>, date_applied |-> 0]

ExternalDelete ==
    \E p \in DOMAIN files :
        /\ clock < MaxSteps
        /\ tampered < MaxExternal
        /\ clock' = clock + 1
        /\ files' = [q \in DOMAIN files \ {p} |-> files[q]]
        /\ tampered' = tampered + 1
        /\ UNCHANGED <<dirs, writes, ret, lastSheet, statusLabel, trace, inv>>

ExternalCreate ==
    \E d \in dirs, name \in ExternalNames :
        /\ clock < MaxSteps
        /\ tampered < MaxExternal
        /\ <<d[1], d[2], name>> \notin DOMAIN files
        /\ clock' = clock + 1
        /\ files' = (<<d[1], d[2], name>> :> ExternalContent) @@ files
        /\ tampered' = tampered + 1
        /\ UNCHANGED <<dirs, writes, ret, lastSheet, statusLabel, trace, inv>>

\* the company and the position written into the backend's __main__
\* ("Artificial Core", "3D Character Animator")
MainCompany == <<"C", " ", "D">>
MainPosition == <<"P">>

\* one run of the backend script: its __main__ saves the job written into it, with
\* whatever the clipboard holds
RunBackendMain ==
    \E clip \in Descriptions, fault \in FsFaults :
        /\ clock < MaxRuns
        /\ LogJobStep(MainCompany, MainPosition, [description |-> NoArg, resume |-> NoArg],
                      clip, fault)

\* a file of a company folder is deleted between two runs
DeleteBetweenRuns ==
    \E p \in DOMAIN files :
        /\ clock < MaxRuns
        /\ tampered < MaxExternal
        /\ clock' = clock + 1
        /\ files' = [q \in DOMAIN files \ {p} |-> files[q]]
        /\ tampered' = tampered + 1
        /\ UNCHANGED <<dirs, writes, ret, lastSheet, statusLabel, trace, inv>>

\* a file of a company folder is renamed between two runs, to a name that is free
RenameBetweenRuns ==
    \E p \in DOMAIN files, name \in ExternalNames :
        LET q == <<p[1], p[2], name>>
        IN  /\ clock < MaxRuns
            /\ tampered < MaxExternal
            /\ q \notin DOMAIN files
            /\ clock' = clock + 1
            /\ files' = (q :> files[p]) @@ [r \in DOMAIN files \ {p} |-> files[r]]
            /\ tampered' = tampered + 1
            /\ UNCHANGED <<dirs, writes, ret, lastSheet, statusLabel, trace, inv>>

-----------------------------------------------------------------------------
(* log_job_applied_for run by two processes: one step for each access to the file system *)

\* Lines 171-177: the company folder is created, the first name is built, and
\* (path_structure / jsong_name).exists() decides whether the folder is scanned.
\* selectedAt and wroteAt are history: the number of records written so far when the
\* invocation settled on its name, and the place of its own record among them.
RaceExists(p) ==
    \E company \in Companies, position \in Positions :
        LET cf    == CreateFolderStructure(company, DefaultRoot, "none", dirs)
            first == BaseName(company, position) \o <<"_">> \o Format03d(1) \o JsonSuffix
            found == Exists(files, cf.path, first)
        IN  /\ inv[p].pc \in {"idle", "done"}
            /\ clock < MaxSteps
            /\ dirs' = cf.dirs
            /\ clock' = Tick(cf.dirs, files)
            /\ inv' = [inv EXCEPT ![p] =
                    [Idle EXCEPT !.pc = IF found THEN "scan" ELSE "write",
                                 !.company = company,
                                 !.position = position,
                                 !.path_structure = cf.path,
                                 !.jsong_name = first,
                                 !.new_file_index = 1,
                                 !.selectedAt = Len(writes)]]
            /\ UNCHANGED <<files, writes, tampered, ret, lastSheet, statusLabel, trace>>

\* Lines 179-184: the folder is listed, the files with the prefix are counted, and the
\* name is built from the count.
RaceScan(p) ==
    LET base == BaseName(inv[p].company, inv[p].position)
        n    == NewFileIndex(files, inv[p].path_structure, base)
    IN  /\ inv[p].pc = "scan"
        /\ inv' = [inv EXCEPT ![p].pc = "write",
                              ![p].jsong_name = base \o <<"_">> \o Format03d(n) \o JsonSuffix,
                              ![p].new_file_index = n,
                              ![p].scanned = TRUE,
                              ![p].selectedAt = Len(writes)]
        /\ UNCHANGED <<dirs, files, clock, writes, tampered, ret, lastSheet, statusLabel,
                       trace>>

\* Lines 186-190: write_json_file opens the selected path for writing and dumps the
\* record, and the function returns.
RaceWrite(p) ==
    \E clip \in Descriptions :
        LET json_file_path == <<inv[p].path_structure[1], inv[p].path_structure[2],
                                inv[p].jsong_name>>
            w == WriteJsonFile(inv[p].position, inv[p].company, json_file_path, clip,
                               clock, "none", files)
            wrote == IF w.raised THEN NoWrite
                     ELSE <<[variant |-> "backend",
                             path    |-> json_file_path,
                             base    |-> BaseName(inv[p].company, inv[p].position),
                             index   |-> inv[p].new_file_index,
                             scanned |-> inv[p].scanned,
                             existed |-> json_file_path \in DOMAIN files]>>
        IN  /\ inv[p].pc = "write"
            /\ files' = w.files
            /\ clock' = Tick(dirs, w.files)
            /\ writes' = writes \o wrote
            /\ inv' = [inv EXCEPT ![p].pc = "done",
                                  ![p].clip = clip,
                                  ![p].raised = w.raised,
                                  ![p].wroteAt = IF w.raised THEN 0 ELSE Len(writes) + 1]
            /\ ret' = [NoCall EXCEPT !.fn = "log_job_applied_for",
                                     !.nargs = 2,
                                     !.company = inv[p].company,
                                     !.position = inv[p].position,
                                     !.root = DefaultRoot,
                                     !.raised = w.raised,
                                     !.exc = IF w.raised THEN "OSError" ELSE None,
                                     !.wrote = wrote]
            /\ UNCHANGED <<dirs, tampered, lastSheet, statusLabel, trace>>

-----------------------------------------------------------------------------
(* Specifications *)

\* the record keeping of job_hunting_tools_backend.py, with changes from outside
Next ==
    \/ CallLogJobAppliedFor
    \/ ExternalDelete
    \/ ExternalCreate

Spec == Init /\ [][Next]_vars

\* create_folder_structure called on its own, between the backend's saves
NextFolder ==
    \/ CallCreateFolderStructure
    \/ CallLogJobAppliedFor

SpecFolder == Init /\ [][NextFolder]_vars

\* log_job_applied_for called the way the form and the documentation call it
NextContract ==
    \/ CallLogJobAppliedFor
    \/ CallLogJobAppliedForExtra

SpecContract == Init /\ [][NextContract]_vars

\* the record keeping of main.py
NextMain == CallMainLogJobAppliedFor

SpecMain == Init /\ [][NextMain]_vars

\* the Google Sheet update on its own
NextSheet == CallLogGoogleSheetData

SpecSheet == Init /\ [][NextSheet]_vars

\* the form: its handler, with company folders created beside it
NextForm ==
    \/ UpdateRecords
    \/ CallCreateFolderStructure

SpecForm == Init /\ [][NextForm]_vars

\* the backend script run again and again, with files deleted or renamed in between
NextTamper ==
    \/ RunBackendMain
    \/ DeleteBetweenRuns
    \/ RenameBetweenRuns

SpecTamper == Init /\ [][NextTamper]_vars

\* two processes saving jobs on one file system at the same time
NextRace ==
    \E p \in Procs :
        \/ RaceExists(p)
        \/ RaceScan(p)
        \/ RaceWrite(p)

SpecRace == Init /\ [][NextRace]_vars

-----------------------------------------------------------------------------
(* What the properties below are stated with *)

\* the folder a record file is in
FolderOf(path) == <<path[1], path[2]>>

\* the records written into a folder, oldest first
WritesIn(folder) == SelectSeq(writes, LAMBDA w : FolderOf(w.path) = folder)

\* the records written into a folder under one base name, oldest first
WritesOf(folder, base) ==
    SelectSeq(writes, LAMBDA w : FolderOf(w.path) = folder /\ w.base = base)

Digit(c) == CHOOSE d \in 0..9 : DigitChar(d) = c

IsDigit(c) == \E d \in 0..9 : DigitChar(d) = c

\* name is base, an underscore, three digits and _job_description.json
IsRecordName(name, base) ==
    /\ Len(name) = Len(base) + 4 + Len(JsonSuffix)
    /\ SubSeq(name, 1, Len(base)) = base
    /\ name[Len(base) + 1] = "_"
    /\ \A i \in 2..4 : IsDigit(name[Len(base) + i])
    /\ SubSeq(name, Len(base) + 5, Len(name)) = JsonSuffix

\* the number the three digits of a record name spell
IndexIn(name, base) ==
    100 * Digit(name[Len(base) + 2]) + 10 * Digit(name[Len(base) + 3])
        + Digit(name[Len(base) + 4])

\* n below 1000 written with three digits
ThreeDigits(n) == <<DigitChar(n \div 100), DigitChar((n \div 10) % 10), DigitChar(n % 10)>>

\* the folder name of each company, written out
FolderNameOf(company) ==
    CASE company = <<"C", " ", "D">> -> <<"c", "_", "d">>
      [] company = <<"E">> -> <<"e">>

\* the base name of each company and position, written out
BaseNameOf(company, position) ==
    CASE company = <<"C", " ", "D">> /\ position = <<"P">> -> <<"c", "_", "d", "_", "p">>
      [] company = <<"C", " ", "D">> /\ position = <<"p", " ", "Q">> ->
            <<"c", "_", "d", "_", "p", "_", "q">>
      [] company = <<"E">> /\ position = <<"P">> -> <<"e", "_", "p">>
      [] company = <<"E">> /\ position = <<"p", " ", "Q">> -> <<"e", "_", "p", "_", "q">>

\* a str, where the function returned None
IsMessage(v) == v # None

-----------------------------------------------------------------------------
(* C1 *)

\* C1 as stated: with no change from outside, each company folder holds as many files
\* as calls wrote into it, every file name is a record name, the index of each call's
\* file is greater than that of every earlier call's file in the folder, and no two
\* names are equal.
C1_IndicesIncreasePerCompany ==
    tampered = 0 =>
        \A d \in dirs :
            LET ws == WritesIn(d)
            IN  /\ Cardinality(FilesIn(files, d)) = Len(ws)
                /\ \A i \in 1..Len(ws) : IsRecordName(ws[i].path[3], ws[i].base)
                /\ \A i, j \in 1..Len(ws) :
                    i < j => /\ IndexIn(ws[i].path[3], ws[i].base)
                                    < IndexIn(ws[j].path[3], ws[j].base)
                             /\ ws[i].path # ws[j].path

\* C1, amended: with no change from outside, each company folder holds as many files as
\* calls wrote into it, and among the calls for one company and one position every
\* file name is a record name with three digits, the index of each call's file is
\* greater than that of every earlier call's file, and no two names are equal.
C1_IndicesIncreasePerPosition ==
    tampered = 0 =>
        \A d \in dirs :
            /\ Cardinality(FilesIn(files, d)) = Len(WritesIn(d))
            /\ \A b \in {writes[k].base : k \in 1..Len(writes)} :
                LET ws == WritesOf(d, b)
                IN  /\ \A i \in 1..Len(ws) : IsRecordName(ws[i].path[3], b)
                    /\ \A i, j \in 1..Len(ws) :
                        i < j => /\ IndexIn(ws[i].path[3], b) < IndexIn(ws[j].path[3], b)
                                 /\ ws[i].path # ws[j].path

\* three saves for one company and one position, and nothing else in the folder
C1_ThreeSaves ==
    /\ tampered = 0
    /\ \E d \in dirs :
        /\ Len(WritesIn(d)) = 3
        /\ \A i \in 1..3 : WritesIn(d)[i].base = WritesIn(d)[1].base
        /\ Cardinality(FilesIn(files, d)) = 3

-----------------------------------------------------------------------------
(* C2 *)

\* C2: with no change from outside, no call writes to a path at which a file already
\* exists, so the folders hold one file for every record written.
C2_NeverOverwrites ==
    tampered = 0 =>
        /\ \A i \in 1..Len(writes) : ~writes[i].existed
        /\ Cardinality(DOMAIN files) = Len(writes)

-----------------------------------------------------------------------------
(* C3 *)

\* C3: a call of log_job_applied_for never raises and returns a message string.
C3_ReturnsMessage ==
    ret.fn = "log_job_applied_for" => ~ret.raised /\ IsMessage(ret.value)

-----------------------------------------------------------------------------
(* C4 *)

\* the record file a first save for the company and position is to create
FirstRecordPath(company, position) ==
    <<DefaultRoot, FolderNameOf(company),
      BaseNameOf(company, position) \o <<"_", "0", "0", "1">> \o JsonSuffix>>

\* C4: a call of log_job_applied_for for a company whose folder holds no file creates
\* exactly one file, at root/company/company_position_001_job_description.json, whose
\* job_description, position_name and company_name are the description, position and
\* company the caller passed; the other files stay as they are.
C4_FreshSave ==
    [][ ( /\ ret'.fn = "log_job_applied_for"
          /\ ret' # ret
          /\ FilesIn(files, <<DefaultRoot, FolderNameOf(ret'.company)>>) = {} )
        => LET path == FirstRecordPath(ret'.company, ret'.position)
           IN  /\ DOMAIN files' = DOMAIN files \cup {path}
               /\ files'[path].job_description = ret'.description
               /\ files'[path].position_name = ret'.position
               /\ files'[path].company_name = ret'.company
               /\ \A q \in DOMAIN files : files'[q] = files[q] ]_vars

-----------------------------------------------------------------------------
(* C5 *)

\* C5: a call of log_job_applied_for with a resume path that does not exist returns a
\* success message, and the record file it wrote is in the folder.
C5_MissingResumeStillSaves ==
    ( /\ ret.fn = "log_job_applied_for"
      /\ ret.resume # NoArg
      /\ ret.resume \notin ExistingResumes )
    => /\ ~ret.raised
       /\ IsMessage(ret.value)
       /\ ret.wrote # NoWrite
       /\ \A i \in 1..Len(ret.wrote) : ret.wrote[i].path \in DOMAIN files

-----------------------------------------------------------------------------
(* C6 *)

\* the text of the exception the spreadsheet client raises
SheetErrorText(fault) == IF fault = "auth" THEN "CredentialsError" ELSE "APIError"

\* C6: an update from the form during which the spreadsheet client fails ends without
\* an exception, the label shows the error's text, and the record file the update wrote
\* is in the folder.
C6_SheetFailureReported ==
    ( ret.fn = "_update_records" /\ ret.sheetFault # "none" )
    => /\ ~ret.raised
       /\ \E i \in 1..Len(statusLabel) : statusLabel[i] = SheetErrorText(ret.sheetFault)
       /\ ret.wrote # NoWrite
       /\ \A i \in 1..Len(ret.wrote) : ret.wrote[i].path \in DOMAIN files

-----------------------------------------------------------------------------
(* C7 *)

\* C7: a call of create_folder_structure(company_name, root) that returns, returns
\* root/normalized company name, and that folder exists afterwards; no call changes a
\* file; and a call for a folder that exists already does not fail, returns the same
\* path, and leaves the folders as they are.
C7_CreateFolder ==
    [][ ret'.fn = "create_folder_structure"
        => LET path == <<ret'.root, FolderNameOf(ret'.company)>>
           IN  /\ files' = files
               /\ ~ret'.raised => ret'.path = path /\ path \in dirs'
               /\ path \in dirs => ~ret'.raised /\ ret'.path = path /\ dirs' = dirs ]_vars

\* create_folder_structure("C D", root) returned root/c_d, a folder that holds records
C7_CalledAgain ==
    /\ ret.fn = "create_folder_structure"
    /\ ~ret.raised
    /\ ret.company = <<"C", " ", "D">>
    /\ ret.path = <<DefaultRoot, <<"c", "_", "d">>>>
    /\ FilesIn(files, ret.path) # {}

-----------------------------------------------------------------------------
(* C8 *)

\* C8: the record a call of log_job_applied_for writes is named B_001_job_description.json
\* when the company folder holds no file of that name; otherwise it is named
\* B_NNN_job_description.json, where NNN is one more than the number of files in the
\* folder whose names start with B and an underscore; B is the normalized company name,
\* an underscore, and the normalized position.
C8_NameChosen ==
    [][ Len(writes') = Len(writes) + 1
        => LET w      == writes'[Len(writes')]
               folder == <<DefaultRoot, FolderNameOf(ret'.company)>>
               B      == BaseNameOf(ret'.company, ret'.position)
               first  == B \o <<"_", "0", "0", "1">> \o JsonSuffix
               c      == Cardinality({n \in FilesIn(files, folder) :
                                        StartsWith(n, B \o <<"_">>)})
           IN  /\ FolderOf(w.path) = folder
               /\ w.path[3] = IF first \notin FilesIn(files, folder)
                              THEN first
                              ELSE B \o <<"_">> \o ThreeDigits(c + 1) \o JsonSuffix ]_vars

\* a record was named by counting, in a folder that holds a file made outside
C8_CountedWithOtherFiles ==
    /\ tampered > 0
    /\ Len(writes) = 2
    /\ writes[2].scanned
    /\ writes[2].index = 3
    /\ writes[2].path \in DOMAIN files

\* a record was named 001 in a folder that held other files
C8_FirstAmongOtherFiles ==
    /\ Len(writes) >= 2
    /\ ~writes[Len(writes)].scanned
    /\ FolderOf(writes[Len(writes)].path) = FolderOf(writes[1].path)

-----------------------------------------------------------------------------
(* C9 *)

\* C9: the rows are inserted into and appended to the worksheet named by tab_name when
\* one is given, and the first worksheet when none is.
C9_TabNameSelectsWorksheet ==
    \A i \in 1..Len(lastSheet.calls) :
        lastSheet.calls[i].op \in {"insert_row", "append_rows"}
        => lastSheet.calls[i].sheet =
                IF lastSheet.tab_name # None /\ lastSheet.tab_name # ""
                THEN lastSheet.tab_name
                ELSE Worksheets[1]

-----------------------------------------------------------------------------
(* C10 *)

\* the calls of the last update that change the worksheet
Changes == SelectSeq(lastSheet.calls, LAMBDA c : c.op \in {"insert_row", "append_rows"})

\* C10: the changes an update makes to the worksheet are, in this order, one insertion
\* of an empty row at index 2 and one append of the given rows at A2 on the same
\* worksheet; an update that raises made the first of them or none, an update that
\* returns made both; and the row is position, company, website, email, location,
\* work location, industry, date.
C10_InsertThenAppend ==
    /\ Len(Changes) <= 2
    /\ Len(Changes) >= 1 =>
        /\ Changes[1].op = "insert_row"
        /\ Changes[1].values = <<>>
        /\ Changes[1].index = 2
    /\ Len(Changes) = 2 =>
        /\ Changes[2].op = "append_rows"
        /\ Changes[2].sheet = Changes[1].sheet
        /\ Changes[2].table_range = "A2"
        /\ Changes[2].values = lastSheet.data
        /\ Len(lastSheet.data) = 1
        /\ LET row == lastSheet.data[1]
           IN  /\ Len(row) = 8
               /\ row[1] \in Positions
               /\ row[2] \in Companies
               /\ row[3] \in Websites
               /\ row[4] \in JobEmails
               /\ row[5] \in Locations
               /\ row[6] \in WorkLocations
               /\ row[7] \in Industries
               /\ row[8] \in Dates
    /\ (ret.fn = "log_google_sheet_data" /\ ~ret.raised) => Len(Changes) = 2

\* an update returned after the insertion and the append
C10_UpdateReturned ==
    /\ ret.fn = "log_google_sheet_data"
    /\ ~ret.raised
    /\ Len(lastSheet.calls) = 4
    /\ Len(Changes) = 2

-----------------------------------------------------------------------------
(* C11 *)

\* the places of an event in the trace of the last form update
PlacesOf(e) == {i \in 1..Len(trace) : trace[i] = e}

\* every occurrence of event b has an occurrence of event a before it
Precedes(a, b) == \A j \in PlacesOf(b) : \E i \in PlacesOf(a) : i < j

\* C11: a form update with a credential path and a sheet name, neither of them empty,
\* gathers the fields first, starts log_google_sheet_data only after log_job_applied_for
\* has returned, sets the label only after both calls have returned, and, when the
\* spreadsheet client does not fail, does all four: gather, save, append, display.
C11_UpdateOrder ==
    ret.fn = "_update_records" =>
        /\ trace # <<>> /\ trace[1] = Gathered
        /\ Precedes(Gathered, SaveCalled)
        /\ Precedes(SaveReturned, AppendCalled)
        /\ Precedes(SaveReturned, LabelSet)
        /\ Precedes(AppendReturned, LabelSet)
        /\ ret.sheetFault = "none" =>
                /\ PlacesOf(SaveReturned) # {}
                /\ PlacesOf(AppendReturned) # {}
                /\ PlacesOf(LabelSet) # {}

\* the part of C11 that is about precedence alone
C11_NothingOutOfOrder ==
    ret.fn = "_update_records" =>
        /\ trace # <<>> /\ trace[1] = Gathered
        /\ Precedes(Gathered, SaveCalled)
        /\ Precedes(SaveReturned, AppendCalled)
        /\ Precedes(SaveReturned, LabelSet)
        /\ Precedes(AppendReturned, LabelSet)

-----------------------------------------------------------------------------
(* C12 *)

\* C12: with no change from outside, the k-th record written for a company and a
\* position is named B_kkk_job_description.json, k written with three digits, whatever
\* was written for other positions of the company in between.
C12_SequentialWithoutGaps ==
    tampered = 0 =>
        \A d \in dirs :
            \A b \in {writes[i].base : i \in 1..Len(writes)} :
                LET ws == WritesOf(d, b)
                IN  \A k \in 1..Len(ws) :
                        /\ ws[k].index = k
                        /\ ws[k].path[3] = b \o <<"_">> \o ThreeDigits(k) \o JsonSuffix

\* the same for the records of one position when no other file of the folder has a name
\* that starts with that position's base name and an underscore
C12_SequentialWithoutSharedPrefix ==
    tampered = 0 =>
        \A d \in dirs :
            \A b \in {writes[i].base : i \in 1..Len(writes)} :
                LET ws == WritesOf(d, b)
                IN  (\A n \in FilesIn(files, d) :
                        StartsWith(n, b \o <<"_">>) => IsRecordName(n, b))
                    => \A k \in 1..Len(ws) :
                        /\ ws[k].index = k
                        /\ ws[k].path[3] = b \o <<"_">> \o ThreeDigits(k) \o JsonSuffix

-----------------------------------------------------------------------------
(* C13 *)

\* the record file of a folder with the given base name and index
RecordPath(folder, base, k) ==
    <<folder[1], folder[2], base \o <<"_">> \o ThreeDigits(k) \o JsonSuffix>>

\* the indices below that of the record w which no file of the folder has
UnusedBelow(w, fs) ==
    {k \in 1..(w.index - 1) : RecordPath(FolderOf(w.path), w.base, k) \notin DOMAIN fs}

\* C13: a call of log_job_applied_for that selects the name of a file that exists
\* replaces that file with its own record, so the folder holds no more files than before
\* and the earlier record is gone; and a call selects such a name, or an index above an
\* unused one, only after files were deleted or renamed from outside.
C13_CollidesOrSkipsAfterOutsideChange ==
    [][ Len(writes') = Len(writes) + 1
        => LET w == writes'[Len(writes')]
           IN  /\ w.path \in DOMAIN files
                    => /\ w.existed
                       /\ DOMAIN files' = DOMAIN files
                       /\ files[w.path].date_applied < clock
                       /\ files'[w.path].date_applied = clock
                       /\ \A q \in DOMAIN files \ {w.path} : files'[q] = files[q]
               /\ (w.path \in DOMAIN files \/ UnusedBelow(w, files') # {})
                    => tampered > 0 ]_vars

\* after a record was renamed or deleted, a call selected index 3 although the file
\* with index 3 existed and index 2 was unused: two of the three records written are left
C13_CollidedAndSkipped ==
    /\ tampered = 1
    /\ Len(writes) >= 3
    /\ LET w == writes[Len(writes)]
       IN  /\ w.existed
           /\ w.index = 3
           /\ w.path \in DOMAIN files
           /\ UnusedBelow(w, files) = {2}
           /\ Cardinality(DOMAIN files) = Len(writes) - 1

\* after a record was renamed, a call selected a free index above an unused one
C13_SkippedOnly ==
    /\ tampered = 1
    /\ Len(writes) >= 1
    /\ LET w == writes[Len(writes)]
       IN  /\ ~w.existed
           /\ w.path \in DOMAIN files
           /\ UnusedBelow(w, files) # {}

\* after a record was deleted (nothing renamed), a call selected a name that existed
C13_CollidedAfterDeletion ==
    /\ tampered = 1
    /\ Cardinality(DOMAIN files) = 2
    /\ Len(writes) = 4
    /\ writes[4].existed

-----------------------------------------------------------------------------
(* C14 *)

\* the invocations of the two processes are complete, were for the same company and
\* position, and settled on their names before either wrote
Interleaved(p, q) ==
    /\ p # q
    /\ inv[p].pc = "done" /\ inv[q].pc = "done"
    /\ inv[p].company = inv[q].company
    /\ inv[p].position = inv[q].position
    /\ inv[p].selectedAt = inv[q].selectedAt
    /\ inv[p].wroteAt < inv[q].wroteAt

\* C14: when two invocations of log_job_applied_for for the same company and position
\* both test and scan the folder before either writes, both select the same name and
\* both write it: the second write finds the file of the first and replaces it, so the
\* folders hold fewer files than records were written and the file holds the record of
\* the second.
C14_InterleavedSavesCollide ==
    \A p, q \in Procs :
        Interleaved(p, q) =>
            LET n == inv[p].selectedAt
            IN  /\ inv[p].jsong_name = inv[q].jsong_name
                /\ ~inv[p].raised /\ ~inv[q].raised
                /\ inv[p].wroteAt = n + 1
                /\ inv[q].wroteAt = n + 2
                /\ writes[n + 1].path = writes[n + 2].path
                /\ ~writes[n + 1].existed
                /\ writes[n + 2].existed
                /\ Cardinality(DOMAIN files) < Len(writes)
                /\ files[writes[n + 2].path].job_description = inv[q].clip

\* two interleaved invocations, the folder empty before: both wrote the file with index
\* 001, one file is there, and the description of the first is in no file
C14_BothWroteFirstName ==
    /\ Interleaved(1, 2)
    /\ ~inv[1].scanned /\ ~inv[2].scanned
    /\ inv[1].clip # inv[2].clip
    /\ Len(writes) = 2
    /\ Cardinality(DOMAIN files) = 1
    /\ \A f \in DOMAIN files : files[f].job_description # inv[1].clip

\* two interleaved invocations that both scanned a folder holding one record: both
\* wrote the file with index 002, two files are there for three records
C14_BothScannedSameCount ==
    /\ Interleaved(1, 2)
    /\ inv[1].scanned /\ inv[2].scanned
    /\ inv[1].new_file_index = 2 /\ inv[2].new_file_index = 2
    /\ Len(writes) = 3
    /\ Cardinality(DOMAIN files) = 2

-----------------------------------------------------------------------------
(* C15 *)

\* the last call was a run of _update_records
FormUpdate(r) == r.fn \in {"_update_records", "_update_records (nothing to update)"}

\* C15: a run of _update_records with an empty credential path or an empty sheet name
\* returns without an exception after gathering the fields, having called neither
\* log_job_applied_for nor log_google_sheet_data: the folders, the files, the calls made
\* to the spreadsheet and the label's text are as they were.
C15_NothingToUpdate ==
    [][ ( /\ FormUpdate(ret')
          /\ ret'.creds_path = "" \/ ret'.sheet_name = "" )
        => /\ ~ret'.raised
           /\ trace' = <<Gathered>>
           /\ dirs' = dirs
           /\ files' = files
           /\ writes' = writes
           /\ lastSheet' = lastSheet
           /\ statusLabel' = statusLabel ]_vars

\* an update with a sheet name and no credential path returned, for a company that has
\* no folder, beside the folder of another company
C15_ReturnedEarly ==
    /\ FormUpdate(ret)
    /\ ret.creds_path = "" /\ ret.sheet_name = "Job log"
    /\ ~ret.raised
    /\ trace = <<Gathered>>
    /\ dirs # {}
    /\ <<DefaultRoot, FolderNameOf(ret.company)>> \notin dirs
    /\ files = EmptyFs
    /\ lastSheet = NoSheetCall
    /\ statusLabel = InitialLabel

=============================================================================
